---- MODULE Spec2Model ----
(***************************************************************************)
(* Template composition engine of bin/scaffold.js: base tree copy,         *)
(* variable substitution, per-feature module copy / dependency collection  *)
(* / marker injection, manifest dependency merge and marker cleanup.       *)
(*                                                                         *)
(* A file is a sequence of tokens.  A token is a string that stands for    *)
(* one lexical unit of the text: a newline, a space, a comment prefix, the *)
(* literal INJECT:, an identifier chunk, a JSON punctuation mark, a JSON   *)
(* key with its colon, a JSON string literal, a word of code.  Substring   *)
(* search, regular-expression matching, JSON parsing and printing all run  *)
(* on these sequences the way the JavaScript runs on characters.           *)
(***************************************************************************)
EXTENDS Integers, Sequences, FiniteSets, TLC

NL == "\n"
SP == " "

\* \s of the regular expressions
IsWs(c) == c \in {NL, SP}

(***************************************************************************)
(* Sequence helpers (String.prototype.includes / indexOf / endsWith).      *)
(***************************************************************************)
Range(s) == {s[i] : i \in 1..Len(s)}

MatchAt(s, pat, i) ==
    /\ i >= 1
    /\ i + Len(pat) - 1 <= Len(s)
    /\ SubSeq(s, i, i + Len(pat) - 1) = pat

\* first index at which pat occurs in s, 0 when it does not occur
IndexOf(s, pat) ==
    LET hits == {i \in 1..(Len(s) + 1) : MatchAt(s, pat, i)}
    IN  IF hits = {} THEN 0 ELSE CHOOSE i \in hits : \A j \in hits : i <= j

Includes(s, pat) == IndexOf(s, pat) # 0

EndsWith(s, suffix) ==
    /\ Len(suffix) <= Len(s)
    /\ SubSeq(s, Len(s) - Len(suffix) + 1, Len(s)) = suffix

RECURSIVE Flatten(_)
Flatten(ss) == IF ss = <<>> THEN <<>> ELSE Head(ss) \o Flatten(Tail(ss))

\* number of (possibly overlapping) occurrences of pat in s
Count(s, pat) == Cardinality({i \in 1..(Len(s) + 1) : MatchAt(s, pat, i)})

(***************************************************************************)
(* Markers.  "// INJECT:NAME" or "# INJECT:NAME": comment prefix, a space, *)
(* the literal INJECT: and an identifier made of chunks of [A-Z_]+.        *)
(***************************************************************************)
CommentPrefixes == {"//", "#"}
IdentChunks == {"CTX", "_IMPORT", "ENV", "WORKERS_SCRIPTS", "CLOUD"}

MarkerCtx       == <<"//", SP, "INJECT:", "CTX">>
MarkerCtxImport == <<"//", SP, "INJECT:", "CTX", "_IMPORT">>
MarkerCloud     == <<"//", SP, "INJECT:", "CLOUD">>
MarkerScripts   == <<"//", SP, "INJECT:", "WORKERS_SCRIPTS">>
MarkerEnv       == <<"#", SP, "INJECT:", "ENV">>

Markers == {MarkerCtx, MarkerCtxImport, MarkerCloud, MarkerScripts, MarkerEnv}

\* marker.includes("WORKERS_SCRIPTS")
IsScriptsMarker(marker) == "WORKERS_SCRIPTS" \in Range(marker)

(***************************************************************************)
(* new RegExp(`^\\s*${escaped marker}\\s*$`, "gm"): the marker alone on    *)
(* its line.  \s also matches a newline, so the match can take in the      *)
(* whitespace-only lines around the marker line.                           *)
(***************************************************************************)
\* ^ under the m flag
LineStartAt(s, i) == i = 1 \/ s[i - 1] = NL

\* $ under the m flag, i being the index after the match
LineEndAt(s, i) == i = Len(s) + 1 \/ s[i] = NL

\* index after the longest run of whitespace that starts at i
RECURSIVE WsRunEnd(_, _)
WsRunEnd(s, i) ==
    IF i <= Len(s) /\ IsWs(s[i]) THEN WsRunEnd(s, i + 1) ELSE i

\* \s*$ tried at p, greedy with backtracking: index after the match, 0 if none
TrailEnd(s, p) ==
    LET ends == {e \in p..WsRunEnd(s, p) : LineEndAt(s, e)}
    IN  IF ends = {} THEN 0 ELSE CHOOSE e \in ends : \A f \in ends : f <= e

\* the whole expression tried at i: index after the match, 0 if none
MarkerLineMatchEnd(s, marker, i) ==
    IF ~LineStartAt(s, i) THEN 0
    ELSE LET starts == {k \in i..WsRunEnd(s, i) :
                            /\ MatchAt(s, marker, k)
                            /\ TrailEnd(s, k + Len(marker)) # 0}
         IN  IF starts = {} THEN 0
             ELSE LET k == CHOOSE k \in starts : \A j \in starts : j <= k
                  IN  TrailEnd(s, k + Len(marker))

\* regex.test(content)
MarkerLineTest(s, marker) ==
    \E i \in 1..Len(s) : MarkerLineMatchEnd(s, marker, i) # 0

\* content.replace(regex, ""), scanning from index i
RECURSIVE StripFrom(_, _, _)
StripFrom(s, marker, i) ==
    IF i > Len(s) THEN <<>>
    ELSE LET e == MarkerLineMatchEnd(s, marker, i)
         IN  IF e # 0 THEN StripFrom(s, marker, e)
             ELSE <<s[i]>> \o StripFrom(s, marker, i + 1)

StripMarkerLines(s, marker) == StripFrom(s, marker, 1)

(***************************************************************************)
(* The marker grammar ^\s*(?://|#)\s*INJECT:[A-Z_]+\s*$ and the lines of   *)
(* a text.                                                                 *)
(***************************************************************************)
RECURSIVE SplitLines(_)
SplitLines(s) ==
    LET n == IndexOf(s, <<NL>>)
    IN  IF n = 0 THEN <<s>>
        ELSE <<SubSeq(s, 1, n - 1)>> \o SplitLines(SubSeq(s, n + 1, Len(s)))

RECURSIVE TrimLeft(_)
TrimLeft(s) == IF s # <<>> /\ IsWs(Head(s)) THEN TrimLeft(Tail(s)) ELSE s

RECURSIVE TrimRight(_)
TrimRight(s) ==
    IF s # <<>> /\ IsWs(s[Len(s)]) THEN TrimRight(SubSeq(s, 1, Len(s) - 1)) ELSE s

Trim(s) == TrimRight(TrimLeft(s))

IsMarkerLine(line) ==
    LET t == Trim(line)
        r == IF t = <<>> THEN <<>> ELSE TrimLeft(Tail(t))
    IN  /\ Len(t) >= 3
        /\ t[1] \in CommentPrefixes
        /\ Len(r) >= 2
        /\ r[1] = "INJECT:"
        /\ \A i \in 2..Len(r) : r[i] \in IdentChunks

HasMarkerLine(s) ==
    LET ls == SplitLines(s) IN \E i \in 1..Len(ls) : IsMarkerLine(ls[i])

(***************************************************************************)
(* JSON.  The text tokens are { } , a key with its colon ("dev:" stands    *)
(* for "dev": ) and a string literal.  A parsed object is the sequence of  *)
(* its members in insertion order, each member a record: k the key, isObj  *)
(* whether the value is an object, s the string value, o the members of    *)
(* the object value.  Whitespace between tokens is insignificant; any      *)
(* other token, a comment line included, is a syntax error.                *)
(***************************************************************************)
KeyToks == {"name:", "scripts:", "dependencies:", "devDependencies:",
            "dev:", "build:", "worker:", "express:", "bullmq:", "tsx:"}
ValueToks == {"{{PROJECT_NAME}}", "my-app", "app{{PROJECT_NAME}}", "x", "y", "z", "1", "2"}

Scalar(k, v) == [k |-> k, isObj |-> FALSE, s |-> v, o |-> <<>>]
Object(k, ms) == [k |-> k, isObj |-> TRUE, s |-> "", o |-> ms]

HasKey(ms, k) == \E i \in 1..Len(ms) : ms[i].k = k

Get(ms, k) == ms[CHOOSE i \in 1..Len(ms) : ms[i].k = k]

\* obj[k] = value: an existing key keeps its position, a new key goes last
Put(ms, m) ==
    IF HasKey(ms, m.k)
    THEN [i \in 1..Len(ms) |-> IF ms[i].k = m.k THEN m ELSE ms[i]]
    ELSE Append(ms, m)

\* { ...a, ...b }
RECURSIVE Spread(_, _)
Spread(a, b) == IF b = <<>> THEN a ELSE Spread(Put(a, Head(b)), Tail(b))

\* the source's pairs take the place of the target's
ObjectAssignReplace(target, source) == source

\* Object.assign(target, source)
ObjectAssign(target, source) == Spread(target, source)

\* obj.k for an object-valued section, {} when the section is missing
Section(ms, k) == IF HasKey(ms, k) /\ Get(ms, k).isObj THEN Get(ms, k).o ELSE <<>>

NonWs(s) == SelectSeq(s, LAMBDA c : ~IsWs(c))

ParseFail == [ok |-> FALSE, ms |-> <<>>, next |-> 0]

\* t[i] is "{": the members up to the matching "}", next the index after it
RECURSIVE ParseObject(_, _)
RECURSIVE ParseMembers(_, _, _)
ParseObject(t, i) ==
    IF i + 1 > Len(t) \/ t[i] # "{" THEN ParseFail
    ELSE IF t[i + 1] = "}" THEN [ok |-> TRUE, ms |-> <<>>, next |-> i + 2]
    ELSE ParseMembers(t, i + 1, <<>>)

\* t[i] starts a member; acc holds the members read so far
ParseMembers(t, i, acc) ==
    IF i + 1 > Len(t) \/ t[i] \notin KeyToks THEN ParseFail
    ELSE LET val == IF t[i + 1] = "{" THEN ParseObject(t, i + 1)
                    ELSE IF t[i + 1] \in ValueToks
                         THEN [ok |-> TRUE, ms |-> <<>>, next |-> i + 2]
                         ELSE ParseFail
             m   == IF t[i + 1] = "{" THEN Object(t[i], val.ms)
                    ELSE Scalar(t[i], t[i + 1])
             j   == val.next
         IN  IF ~val.ok \/ j > Len(t) THEN ParseFail
             ELSE IF t[j] = "}" THEN [ok |-> TRUE, ms |-> Put(acc, m), next |-> j + 1]
             ELSE IF t[j] = "," THEN ParseMembers(t, j + 1, Put(acc, m))
             ELSE ParseFail

\* JSON.parse(text): ok is FALSE where JSON.parse throws a SyntaxError
JSONParse(text) ==
    LET t == NonWs(text)
        r == ParseObject(t, 1)
    IN  IF r.ok /\ r.next = Len(t) + 1 THEN [ok |-> TRUE, ms |-> r.ms]
        ELSE [ok |-> FALSE, ms |-> <<>>]

Indent(n) == [i \in 1..n |-> SP]

\* JSON.stringify(value, null, 2) for an object printed at indentation n
RECURSIVE StringifyObject(_, _)
RECURSIVE StringifyMembers(_, _)
StringifyObject(ms, n) ==
    IF ms = <<>> THEN <<"{", "}">>
    ELSE <<"{", NL>> \o StringifyMembers(ms, n + 2) \o <<NL>> \o Indent(n) \o <<"}">>

StringifyMembers(ms, n) ==
    LET m    == Head(ms)
        this == Indent(n) \o <<m.k, SP>> \o
                (IF m.isObj THEN StringifyObject(m.o, n) ELSE <<m.s>>)
    IN  IF Len(ms) = 1 THEN this
        ELSE this \o <<",", NL>> \o StringifyMembers(Tail(ms), n)

JSONStringify(ms) == StringifyObject(ms, 0)

(***************************************************************************)
(* String.prototype.replace(pattern string, replacement string): the first *)
(* occurrence of the pattern is replaced, and in the replacement $$ stands *)
(* for a dollar sign and $& for the matched text.                          *)
(***************************************************************************)
RECURSIVE GetSubstitution(_, _)
GetSubstitution(repl, matched) ==
    IF repl = <<>> THEN <<>>
    ELSE (IF Head(repl) = "$$" THEN <<"$">>
          ELSE IF Head(repl) = "$&" THEN matched
          ELSE <<Head(repl)>>) \o GetSubstitution(Tail(repl), matched)

ReplaceFirst(s, pat, repl) ==
    LET i == IndexOf(s, pat)
    IN  IF i = 0 THEN s
        ELSE SubSeq(s, 1, i - 1) \o GetSubstitution(repl, pat)
             \o SubSeq(s, i + Len(pat), Len(s))

(***************************************************************************)
(* Paths, relative to the directory they live in, as token sequences:      *)
(* segments, "/" and "." and the pieces of a file name.  A tree maps the   *)
(* paths of its files to their content.                                    *)
(***************************************************************************)
PackageJson   == <<"package", ".", "json">>
IndexTs       == <<"src", "/", "index", ".", "ts">>
ReadmeMd      == <<"README", ".", "md">>
EnvExample    == <<".", "env", ".", "example">>
DeployEnv     == <<"deploy", "/", "app", ".", "env", ".", "example">>
WorkerModule  == <<"workers", "/", "worker", ".", "ts">>

\* index of the first token of the last segment
RECURSIVE BaseStart(_, _)
BaseStart(p, i) == IF i = 0 \/ p[i] = "/" THEN i + 1 ELSE BaseStart(p, i - 1)

Basename(p) == SubSeq(p, BaseStart(p, Len(p)), Len(p))

\* "**/node_modules/**" and the like
UnderDir(p, dir) == \E i \in 1..Len(p) : p[i] = dir /\ i < Len(p) /\ p[i + 1] = "/"

\* a path the glob walks without the dot option: no segment starts with "."
NoDotSegment(p) == \A i \in 1..Len(p) : p[i] = "." => (i > 1 /\ p[i - 1] # "/")

\* glob("**/*.{ts,js,json,env*}", { ignore: ["**/node_modules/**"] })
CleanupGlob(p) ==
    LET b == Basename(p)
    IN  /\ NoDotSegment(p)
        /\ ~UnderDir(p, "node_modules")
        /\ \/ \E e \in {"ts", "js", "json"} : EndsWith(b, <<".", e>>)
           \/ Includes(b, <<".", "env">>)

\* glob("**/*", { ignore: node_modules, dist, build })
TemplateGlob(p) ==
    /\ NoDotSegment(p)
    /\ \A d \in {"node_modules", "dist", "build"} : ~UnderDir(p, d)

\* file.endsWith(".env.example")
IsReserved(p) == EndsWith(p, EnvExample)

\* filePath.endsWith("package.json")
IsManifest(p) == EndsWith(p, PackageJson)

Write(t, p, content) == [q \in DOMAIN t \cup {p} |-> IF q = p THEN content ELSE t[q]]

(***************************************************************************)
(* Directories.  A directory is named by its path, the directory the       *)
(* paths are relative to by the empty path.  A file system is a record:    *)
(* files, the content of its files by path, and dirs, its directories.     *)
(***************************************************************************)
Root == <<>>

\* path.dirname(p)
Dirname(p) == SubSeq(p, 1, BaseStart(p, Len(p)) - 2)

\* path.join(a, b)
Join(a, b) == IF b = Root THEN a ELSE a \o <<"/">> \o b

\* String.prototype.startsWith
StartsWith(s, prefix) == Len(prefix) <= Len(s) /\ SubSeq(s, 1, Len(prefix)) = prefix

\* the directories above p, up to the root
RECURSIVE Ancestors(_)
Ancestors(p) == IF p = Root THEN {} ELSE {Dirname(p)} \cup Ancestors(Dirname(p))

\* fs.mkdir(path.dirname(file), { recursive: true }) for every file of t
MkdirParents(ds, t) == ds \cup UNION {Ancestors(p) : p \in DOMAIN t}

\* fs.readdir(dir): the files and directories right below dir
Entries(fs, dir) ==
    {e \in (DOMAIN fs.files \cup fs.dirs) \ {Root} : Dirname(e) = dir}

\* path.resolve(__dirname, ".."), and templates/base below it
TemplateRoot == <<"/", "opt", "/", "tpl">>
BaseTemplateDir == Join(TemplateRoot, <<"templates", "/", "base">>)

(***************************************************************************)
(* copyDirectory(src, dest, excludePaths)                                  *)
(***************************************************************************)
\* excludePaths.some((exclude) => srcPath.includes(exclude))
Excluded(srcPath, excludePaths) == \E x \in excludePaths : Includes(srcPath, x)

\* only files are copied, with the directories they need
CopyDirectoryFilesOnly(src, dest, excludePaths) ==
    LET copied == {p \in DOMAIN src.files : ~Excluded(Join(src.root, p), excludePaths)}
        files  == [q \in DOMAIN dest.files \cup copied |->
                      IF q \in copied THEN src.files[q] ELSE dest.files[q]]
    IN  [files |-> files, dirs |-> MkdirParents(dest.dirs \cup {Root}, files),
         raised |-> FALSE]

\* CopyInto: copyDirectory(src/rel, dest/rel, excludePaths), d being the
\* destination so far; CopyEntries: its loop over the entries not yet visited.
\* mkdir fails on a path that is a file, copyFile on a path that is a directory;
\* the order of readdir decides what was copied before such a failure.
RECURSIVE CopyInto(_, _, _, _)
RECURSIVE CopyEntries(_, _, _, _)
CopyInto(src, rel, d, excludePaths) ==
    IF rel \in DOMAIN d.files THEN [d EXCEPT !.raised = TRUE]
    ELSE CopyEntries(src, Entries(src, rel),
                     [d EXCEPT !.dirs = @ \cup {rel} \cup Ancestors(rel)],
                     excludePaths)

CopyEntries(src, todo, d, excludePaths) ==
    IF todo = {} \/ d.raised THEN d
    ELSE LET e    == CHOOSE e \in todo : TRUE
             rest == todo \ {e}
         IN  IF Excluded(Join(src.root, e), excludePaths)
             THEN CopyEntries(src, rest, d, excludePaths)
             ELSE IF e \in src.dirs
             THEN CopyEntries(src, rest, CopyInto(src, e, d, excludePaths), excludePaths)
             ELSE IF e \in d.dirs THEN [d EXCEPT !.raised = TRUE]
             ELSE CopyEntries(src, rest,
                              [d EXCEPT !.files = Write(@, e, src.files[e])],
                              excludePaths)

\* src: root, files, dirs; dest: files, dirs; the result: files, dirs, raised
CopyDirectory(src, dest, excludePaths) ==
    CopyInto(src, Root, [files |-> dest.files, dirs |-> dest.dirs, raised |-> FALSE],
             excludePaths)

(***************************************************************************)
(* copyModuleFiles(modulePath, targetDir, filePatterns).  A pattern is a   *)
(* path that may end in "**"; it matches the module files below the path   *)
(* in front of the "**", or the file of exactly that path.                 *)
(***************************************************************************)
PatternMatches(pattern, p) ==
    IF pattern # <<>> /\ pattern[Len(pattern)] = "**"
    THEN LET prefix == SubSeq(pattern, 1, Len(pattern) - 1)
         IN  Len(p) > Len(prefix) /\ SubSeq(p, 1, Len(prefix)) = prefix
    ELSE p = pattern

RECURSIVE CopyModuleFiles(_, _, _)
CopyModuleFiles(modules, t, patterns) ==
    IF patterns = <<>> THEN t
    ELSE LET hit  == {p \in DOMAIN modules : PatternMatches(Head(patterns), p)}
             dest == {<<"src", "/">> \o p : p \in hit}
             t2   == [q \in DOMAIN t \cup dest |->
                         IF q \in dest THEN modules[SubSeq(q, 3, Len(q))] ELSE t[q]]
         IN  CopyModuleFiles(modules, t2, Tail(patterns))

(***************************************************************************)
(* injectCode(filePath, marker, code): the tree after the call, whether it *)
(* returned true, whether it threw.                                        *)
(***************************************************************************)
\* on a shared key the script already in the manifest wins
InjectScriptsKeepOld(t, p, marker, code) ==
    LET stripped == StripMarkerLines(t[p], marker)
        pkg      == JSONParse(stripped)
        toAdd    == JSONParse(<<"{">> \o code \o <<"}">>)
    IN  IF ~pkg.ok \/ ~toAdd.ok
        THEN [tree |-> t, applied |-> FALSE, raised |-> TRUE]
        ELSE LET scripts == Spread(toAdd.ms, Section(pkg.ms, "scripts:"))
                 merged  == Put(pkg.ms, Object("scripts:", scripts))
             IN  [tree    |-> Write(t, p, JSONStringify(merged) \o <<NL>>),
                  applied |-> TRUE, raised |-> FALSE]

\* a fragment that does not parse is skipped without an error
InjectScriptsSwallow(t, p, marker, code) ==
    LET stripped == StripMarkerLines(t[p], marker)
        pkg      == JSONParse(stripped)
        toAdd    == JSONParse(<<"{">> \o code \o <<"}">>)
    IN  IF ~pkg.ok
        THEN [tree |-> t, applied |-> FALSE, raised |-> TRUE]
        ELSE IF ~toAdd.ok
        THEN [tree |-> t, applied |-> FALSE, raised |-> FALSE]
        ELSE LET scripts == Spread(Section(pkg.ms, "scripts:"), toAdd.ms)
                 merged  == Put(pkg.ms, Object("scripts:", scripts))
             IN  [tree    |-> Write(t, p, JSONStringify(merged) \o <<NL>>),
                  applied |-> TRUE, raised |-> FALSE]

InjectScripts(t, p, marker, code) ==
    LET stripped == StripMarkerLines(t[p], marker)
        pkg      == JSONParse(stripped)
        toAdd    == JSONParse(<<"{">> \o code \o <<"}">>)
    IN  IF ~pkg.ok \/ ~toAdd.ok
        THEN [tree |-> t, applied |-> FALSE, raised |-> TRUE]
        ELSE LET scripts == Spread(Section(pkg.ms, "scripts:"), toAdd.ms)
                 merged  == Put(pkg.ms, Object("scripts:", scripts))
             IN  [tree    |-> Write(t, p, JSONStringify(merged) \o <<NL>>),
                  applied |-> TRUE, raised |-> FALSE]

\* true is returned also when the marker was not found
InjectTextAlwaysTrue(t, p, marker, code) ==
    IF Includes(t[p], marker)
    THEN [tree    |-> Write(t, p, ReplaceFirst(t[p], marker, code \o <<NL, SP, SP>> \o marker)),
          applied |-> TRUE, raised |-> FALSE]
    ELSE [tree |-> t, applied |-> TRUE, raised |-> FALSE]

InjectText(t, p, marker, code) ==
    IF Includes(t[p], marker)
    THEN [tree    |-> Write(t, p, ReplaceFirst(t[p], marker, code \o <<NL, SP, SP>> \o marker)),
          applied |-> TRUE, raised |-> FALSE]
    ELSE [tree |-> t, applied |-> FALSE, raised |-> FALSE]

\* a missing file is created with the code only
InjectCodeCreateWithoutMarker(t, p, marker, code) ==
    IF p \notin DOMAIN t
    THEN [tree    |-> Write(t, p, code \o <<NL>>),
          applied |-> TRUE, raised |-> FALSE]
    ELSE IF IsManifest(p) /\ IsScriptsMarker(marker)
         THEN InjectScripts(t, p, marker, code)
         ELSE InjectText(t, p, marker, code)

InjectCode(t, p, marker, code) ==
    IF p \notin DOMAIN t
    THEN [tree    |-> Write(t, p, marker \o <<NL>> \o code \o <<NL>>),
          applied |-> TRUE, raised |-> FALSE]
    ELSE IF IsManifest(p) /\ IsScriptsMarker(marker)
         THEN InjectScripts(t, p, marker, code)
         ELSE InjectText(t, p, marker, code)

(***************************************************************************)
(* mergePackageJson(targetDir, dependencies, devDependencies)              *)
(***************************************************************************)
\* on a shared package the version already in the manifest wins
MergePackageJsonKeepOld(t, dependencies, devDependencies) ==
    IF PackageJson \notin DOMAIN t THEN [tree |-> t, raised |-> TRUE]
    ELSE LET pkg == JSONParse(t[PackageJson])
         IN  IF ~pkg.ok THEN [tree |-> t, raised |-> TRUE]
             ELSE LET deps  == Spread(dependencies, Section(pkg.ms, "dependencies:"))
                      m1    == Put(pkg.ms, Object("dependencies:", deps))
                      dev   == Spread(devDependencies, Section(pkg.ms, "devDependencies:"))
                      m2    == IF devDependencies # <<>>
                               THEN Put(m1, Object("devDependencies:", dev))
                               ELSE m1
                  IN  [tree   |-> Write(t, PackageJson, JSONStringify(m2) \o <<NL>>),
                       raised |-> FALSE]

\* the devDependencies section is written whether or not there is one to merge
MergePackageJsonAlwaysDev(t, dependencies, devDependencies) ==
    IF PackageJson \notin DOMAIN t THEN [tree |-> t, raised |-> TRUE]
    ELSE LET pkg == JSONParse(t[PackageJson])
         IN  IF ~pkg.ok THEN [tree |-> t, raised |-> TRUE]
             ELSE LET deps  == Spread(Section(pkg.ms, "dependencies:"), dependencies)
                      m1    == Put(pkg.ms, Object("dependencies:", deps))
                      dev   == Spread(Section(pkg.ms, "devDependencies:"), devDependencies)
                      m2    == Put(m1, Object("devDependencies:", dev))
                  IN  [tree   |-> Write(t, PackageJson, JSONStringify(m2) \o <<NL>>),
                       raised |-> FALSE]

MergePackageJson(t, dependencies, devDependencies) ==
    IF PackageJson \notin DOMAIN t THEN [tree |-> t, raised |-> TRUE]
    ELSE LET pkg == JSONParse(t[PackageJson])
         IN  IF ~pkg.ok THEN [tree |-> t, raised |-> TRUE]
             ELSE LET deps  == Spread(Section(pkg.ms, "dependencies:"), dependencies)
                      m1    == Put(pkg.ms, Object("dependencies:", deps))
                      dev   == Spread(Section(pkg.ms, "devDependencies:"), devDependencies)
                      m2    == IF devDependencies # <<>>
                               THEN Put(m1, Object("devDependencies:", dev))
                               ELSE m1
                  IN  [tree   |-> Write(t, PackageJson, JSONStringify(m2) \o <<NL>>),
                       raised |-> FALSE]

(***************************************************************************)
(* processTemplateVariables / processAllTemplateVariables                  *)
(***************************************************************************)
Placeholder(key) == "{{" \o key \o "}}"

\* an entry of variables: the key and the pieces of the value, a piece being
\* a dollar pattern or a stretch of other characters
Variable(key, value) == [k |-> key, v |-> value]

\* the characters of the pieces as one token
RECURSIVE Text(_)
Text(pieces) == IF pieces = <<>> THEN "" ELSE Head(pieces) \o Text(Tail(pieces))

\* content.replace(new RegExp(`{{${key}}}`, "g"), value): every occurrence
\* is replaced, and the dollar patterns of the value are expanded
ReplaceAllTokens(content, tok, value) ==
    [i \in 1..Len(content) |->
        IF content[i] = tok THEN Text(GetSubstitution(value, <<tok>>)) ELSE content[i]]

\* the loop over Object.entries(variables): the content and the modified flag
RECURSIVE ReplaceVariables(_, _, _)
ReplaceVariables(content, variables, modified) ==
    IF variables = <<>> THEN [content |-> content, modified |-> modified]
    ELSE IF Placeholder(Head(variables).k) \in Range(content)
         THEN ReplaceVariables(
                  ReplaceAllTokens(content, Placeholder(Head(variables).k),
                                   Head(variables).v),
                  Tail(variables), TRUE)
         ELSE ReplaceVariables(content, Tail(variables), modified)

\* processTemplateVariables(filePath, variables) on the files t; a path that
\* is not a file of t is a directory or missing; failing: the files on which
\* a read or a write fails.  Every error is caught and dropped.
ProcessTemplateVariables(t, filePath, variables, failing) ==
    IF filePath \notin DOMAIN t \/ filePath \in failing
    THEN [tree |-> t, wrote |-> FALSE, raised |-> FALSE]
    ELSE LET r == ReplaceVariables(t[filePath], variables, FALSE)
         IN  IF r.modified
             THEN [tree |-> Write(t, filePath, r.content), wrote |-> TRUE, raised |-> FALSE]
             ELSE [tree |-> t, wrote |-> FALSE, raised |-> FALSE]

ProcessAllTemplateVariables(t, variables) ==
    [p \in DOMAIN t |->
        IF TemplateGlob(p)
        THEN ProcessTemplateVariables(t, p, variables, {}).tree[p]
        ELSE t[p]]

(***************************************************************************)
(* cleanupMarkers(targetDir, injectedMarkers)                              *)
(***************************************************************************)
\* the loop over injectedMarkers: the stripped content and the modified flag
RECURSIVE StripAll(_, _, _)
StripAll(content, markers, modified) ==
    IF markers = <<>> THEN [content |-> content, modified |-> modified]
    ELSE IF MarkerLineTest(content, Head(markers))
         THEN StripAll(StripMarkerLines(content, Head(markers)), Tail(markers), TRUE)
         ELSE StripAll(content, Tail(markers), modified)

\* every marker of the grammar is stripped, applied in this run or not
CleanFileEveryMarker(p, content, markers) ==
    LET r == StripAll(content,
                      <<MarkerCtx, MarkerCtxImport, MarkerCloud, MarkerScripts, MarkerEnv>>,
                      FALSE)
    IN  IF ~r.modified THEN content
        ELSE IF IsManifest(p)
             THEN LET pkg == JSONParse(r.content)
                  IN  IF pkg.ok THEN JSONStringify(pkg.ms) \o <<NL>> ELSE r.content
             ELSE r.content

CleanFile(p, content, markers) ==
    LET r == StripAll(content, markers, FALSE)
    IN  IF ~r.modified THEN content
        ELSE IF IsManifest(p)
             THEN LET pkg == JSONParse(r.content)
                  IN  IF pkg.ok THEN JSONStringify(pkg.ms) \o <<NL>> ELSE r.content
             ELSE r.content

\* no file is skipped
SkipNothing(p) == FALSE

\* if (file.endsWith(".env.example")) continue
SkipInCleanup(p) == IsReserved(p)

CleanupMarkers(t, markers) ==
    [p \in DOMAIN t |->
        IF CleanupGlob(p) /\ ~SkipInCleanup(p) THEN CleanFile(p, t[p], markers) ELSE t[p]]

\* cleanupMarkers when the read or the write of the files in failing fails:
\* catch (error) { continue; }
CleanupMarkersSkipping(t, markers, failing) ==
    [p \in DOMAIN t |-> IF p \in failing THEN t[p] ELSE CleanupMarkers(t, markers)[p]]

(***************************************************************************)
(* The inputs of a run: the feature registry (templates/                   *)
(* features-config.json), the module library, the base template and the    *)
(* selection.  The registry holds a feature whose script fragment is not   *)
(* an object interior, and a fragment with a dollar pattern.               *)
(***************************************************************************)
MaxSel == 3

Injection(file, marker, code) == [file |-> file, marker |-> marker, code |-> code]

FeatureKeys == {"ctx", "cloud", "workers", "queues", "broken"}

FeaturesConfig ==
    [ctx |->
        [files |-> <<>>, dependencies |-> <<>>, devDependencies |-> <<>>,
         injections |-> <<Injection(IndexTs, MarkerCtxImport, <<"importCtx">>),
                          Injection(IndexTs, MarkerCtx, <<"useCtx">>),
                          Injection(PackageJson, MarkerCtx, <<"build:", SP, "y", ",">>)>>],
     cloud |->
        [files |-> <<>>,
         dependencies |-> <<Scalar("express:", "2")>>, devDependencies |-> <<>>,
         injections |-> <<Injection(IndexTs, MarkerCloud,
                                    <<"cloud", SP, "{{PROJECT_NAME}}">>),
                          Injection(IndexTs, MarkerCtx, <<"useCloud">>)>>],
     workers |->
        [files |-> << <<"workers", "/", "**">> >>,
         dependencies |-> <<Scalar("bullmq:", "1")>>,
         devDependencies |-> <<Scalar("tsx:", "1")>>,
         injections |-> <<Injection(PackageJson, MarkerScripts, <<"worker:", SP, "x">>),
                          Injection(EnvExample, MarkerEnv, <<"REDIS">>)>>],
     queues |->
        [files |-> <<>>,
         dependencies |-> <<Scalar("bullmq:", "2")>>, devDependencies |-> <<>>,
         injections |-> <<Injection(PackageJson, MarkerScripts,
                                    <<"worker:", SP, "y", ",", "dev:", SP, "z">>),
                          Injection(EnvExample, MarkerEnv, <<"QUEUE">>),
                          Injection(IndexTs, MarkerCtx, <<"price", "$$">>)>>],
     broken |->
        [files |-> <<>>,
         dependencies |-> <<>>, devDependencies |-> <<Scalar("tsx:", "2")>>,
         injections |-> <<Injection(PackageJson, MarkerScripts, <<"build:", SP, "y", ",">>),
                          Injection(IndexTs, MarkerCtx, <<"never">>)>>]]

\* templates/modules
Modules == (WorkerModule :> <<"worker", SP, "{{PROJECT_NAME}}", NL>>)

IndexVariants ==
    { <<"import", NL, SP, SP>> \o MarkerCtxImport \o <<NL, "app", NL>>
          \o MarkerCtx \o <<NL, "listen", NL>>,
      <<"app", NL>> \o MarkerCtx \o <<NL, NL>> \o MarkerCloud
          \o <<NL, "listen", SP, "{{PROJECT_NAME}}", NL>>,
      <<"app", SP>> \o MarkerCtx \o <<NL, "listen", NL>> }

ManifestVariants ==
    { <<"{", NL, "name:", SP, "{{PROJECT_NAME}}", ",", NL,
        "scripts:", SP, "{", NL, "dev:", SP, "x", NL>>
          \o MarkerScripts
          \o <<NL, "}", ",", NL, "dependencies:", SP, "{", "express:", SP, "1", "}", NL, "}", NL>>,
      <<"{", "name:", SP, "{{PROJECT_NAME}}", "}", NL>>,
      <<"{", NL, "scripts:", SP, "{", NL, SP, SP>> \o MarkerCtx
          \o <<NL, "dev:", SP, "x", NL>> \o MarkerScripts \o <<NL, "}", NL, "}", NL>> }

EnvVariants == { <<>>, MarkerEnv \o <<NL, "PORT", NL>> }

\* templates/base: the content of the env example is <<>> when the base has none
BaseTree(index, manifest, env) ==
    LET always == (IndexTs :> index) @@ (PackageJson :> manifest)
                  @@ (ReadmeMd :> <<"#", SP, "{{PROJECT_NAME}}", SP, "{{AUTHOR}}", NL,
                                    "{{PROJECT_NAME}}", NL>>)
                  @@ (DeployEnv :> <<"HOST", NL>> \o MarkerCtx \o <<NL>>)
    IN  IF env = <<>> THEN always ELSE always @@ (EnvExample :> env)

BaseTrees ==
    {BaseTree(i, m, e) : i \in IndexVariants, m \in ManifestVariants, e \in EnvVariants}

\* the directories of templates/base: those of its files, an empty one and an
\* empty one inside an empty one
BaseDirs ==
    {Root, <<"src">>, <<"deploy">>, <<"logs">>, <<"src", "/", "lib">>,
     <<"src", "/", "lib", "/", "gen">>}

BaseSource(files) == [root |-> BaseTemplateDir, files |-> files, dirs |-> BaseDirs]

EmptyTree == <<>>

\* process.cwd(): the template root, a directory inside it, a directory whose
\* path starts with the path of the template root, and two directories elsewhere
Cwds ==
    {TemplateRoot,
     Join(TemplateRoot, <<"bin">>),
     TemplateRoot \o <<"-old">>,
     <<"/", "home", "/", "my-app">>,
     <<"/", "home", "/", "app", "$&">>}

\* projectAnswers.projectName, past the validation of the prompt
Answers == {<<".">>, <<"my-app">>}

\* the target directory before the run: missing, empty, holding a file,
\* holding a directory
TargetStates ==
    {[files |-> EmptyTree, dirs |-> {}],
     [files |-> EmptyTree, dirs |-> {Root}],
     [files |-> (ReadmeMd :> <<"old", NL>>), dirs |-> {Root}],
     [files |-> EmptyTree, dirs |-> {Root, <<"old">>}]}

NotesTxt == <<"notes", ".", "txt">>

\* the destination of a call of copyDirectory: a target directory as above,
\* one that holds files and directories of the same and of other names than
\* the source, one with a file where the source has a directory, one with a
\* directory where the source has a file
DestStates ==
    TargetStates \cup
    {[files |-> (ReadmeMd :> <<"old", NL>>) @@ (NotesTxt :> <<"keep", SP, "{{AUTHOR}}", NL>>),
      dirs  |-> {Root, <<"src">>, <<"old">>}],
     [files |-> (<<"logs">> :> <<"x", NL>>), dirs |-> {Root}],
     [files |-> EmptyTree, dirs |-> {Root, ReadmeMd}]}

\* excludePaths: none, the list of the earlier engine, a directory, a piece
\* of file names, a nested directory, a piece of the path of the source itself
ExcludeSets ==
    {{},
     {<<"node_modules">>, <<"dist">>, <<"build">>},
     {<<"deploy">>},
     {<<"env">>},
     {<<"src", "/", "lib">>, <<"README">>},
     {<<"templates">>}}

\* variables: the project name, typed or the name of the current directory
VariableSets ==
    {<<Variable("PROJECT_NAME", answer)>> : answer \in Answers \ {<<".">>}}
    \cup {<<Variable("PROJECT_NAME", Basename(cwd))>> :
              cwd \in {c \in Cwds : ~StartsWith(c, TemplateRoot)}}

\* answers.features: distinct keys, in the order the registry document lists them
\* (the document may list its features in any order)
Selections ==
    {sel \in UNION {[1..n -> FeatureKeys] : n \in 0..MaxSel} :
        \A i, j \in 1..Len(sel) : i # j => sel[i] # sel[j]}

(***************************************************************************)
(* State of a run of scaffold().                                           *)
(***************************************************************************)
VARIABLES
    base,               \* the files below BASE_TEMPLATE_DIR
    selection,          \* selectedFeatures
    projectName,        \* the pieces of projectName
    tree,               \* the files below targetDir
    dirs,               \* the directories below targetDir, targetDir itself included
    pc,                 \* the statement scaffold() is at
    fi,                 \* index of featureKey in selectedFeatures
    ii,                 \* index of injection in feature.injections
    allDependencies,
    allDevDependencies,
    injectedMarkers,    \* the Set, in insertion order
    steps,              \* history: the steps that ran, in order
    last                \* history: the last call and the state it started from

vars == <<base, selection, projectName, tree, dirs, pc, fi, ii, allDependencies,
          allDevDependencies, injectedMarkers, steps, last>>

\* args: the arguments of the call that are not state of the run; result:
\* what the call reported besides applied and raised
NoCall == [op |-> "none", path |-> <<>>, marker |-> <<>>, code |-> <<>>,
           before |-> EmptyTree, dirsBefore |-> {}, markersBefore |-> <<>>,
           applied |-> FALSE, raised |-> FALSE, args |-> <<>>, result |-> <<>>]

Call(op, path, marker, code, applied, raised) ==
    [op |-> op, path |-> path, marker |-> marker, code |-> code,
     before |-> tree, dirsBefore |-> dirs, markersBefore |-> injectedMarkers,
     applied |-> applied, raised |-> raised, args |-> <<>>, result |-> <<>>]

Step(name) == [step |-> name, f |-> fi, i |-> ii]

Feature == FeaturesConfig[selection[fi]]

\* injectedMarkers.add(marker)
SetAdd(set, x) == IF x \in Range(set) THEN set ELSE Append(set, x)

Init ==
    /\ base \in BaseTrees
    /\ selection = <<>>
    /\ projectName = <<>>
    /\ \E target \in TargetStates : tree = target.files /\ dirs = target.dirs
    /\ pc = "start"
    /\ fi = 0
    /\ ii = 0
    /\ allDependencies = <<>>
    /\ allDevDependencies = <<>>
    /\ injectedMarkers = <<>>
    /\ steps = <<>>
    /\ last = NoCall

(***************************************************************************)
(* scaffold(): the order of the phases.                                    *)
(***************************************************************************)
\* the dependency merge and the marker cleanup change places
SuccessorCleanupFirst(phase) ==
    CASE phase = "copy"     -> "subst"
      [] phase = "subst"    -> "features"
      [] phase = "features" -> "cleanup"
      [] phase = "cleanup"  -> "merge"
      [] phase = "merge"    -> "done"

Successor(phase) ==
    CASE phase = "copy"     -> "subst"
      [] phase = "subst"    -> "features"
      [] phase = "features" -> "merge"
      [] phase = "merge"    -> "cleanup"
      [] phase = "cleanup"  -> "done"

\* if (selectedFeatures.length > 0) { for (const featureKey of ...) ... }
EnterPhase(phase) ==
    IF phase # "features" THEN phase
    ELSE IF selection = <<>> THEN Successor("features") ELSE "files"

\* the end of the body of the loop over selectedFeatures
NextFeature ==
    IF fi < Len(selection)
    THEN /\ pc' = "files"
         /\ fi' = fi + 1
         /\ ii' = 0
    ELSE /\ pc' = Successor("features")
         /\ fi' = fi
         /\ ii' = 0

\* a non-empty target directory is accepted
ResolveTargetUnchecked(cwd, answer, t, ds) ==
    IF StartsWith(cwd, TemplateRoot)
    THEN [rejected |-> TRUE, dirs |-> ds, projectName |-> <<>>]
    ELSE [rejected |-> FALSE, dirs |-> ds \cup {Root},
          projectName |-> IF answer = <<".">> THEN Basename(cwd) ELSE answer]

\* lines 288-368 on the target directory with files t and directories ds:
\* whether the run is refused, the directories left, the project name
ResolveTarget(cwd, answer, t, ds) ==
    IF StartsWith(cwd, TemplateRoot)
    THEN [rejected |-> TRUE, dirs |-> ds, projectName |-> <<>>]
    ELSE IF Root \in ds /\ Entries([files |-> t, dirs |-> ds], Root) # {}
    THEN [rejected |-> TRUE, dirs |-> ds, projectName |-> <<>>]
    ELSE [rejected |-> FALSE, dirs |-> ds \cup {Root},
          projectName |-> IF answer = <<".">> THEN Basename(cwd) ELSE answer]

\* targetDir
TargetDir(cwd, answer) == IF answer = <<".">> THEN cwd ELSE Join(cwd, answer)

\* the start of scaffold(), up to the answers of the feature prompt: the
\* current directory exists; a refused run exits before the feature prompt
Resolve ==
    /\ pc = "start"
    /\ \E cwd \in Cwds, answer \in Answers, features \in Selections :
          /\ answer = <<".">> => Root \in dirs
          /\ LET r == ResolveTarget(cwd, answer, tree, dirs)
             IN  /\ last' = [Call("resolve", TargetDir(cwd, answer), <<>>, <<>>,
                                  FALSE, r.rejected)
                               EXCEPT !.args = [cwd |-> cwd, answer |-> answer]]
                 /\ dirs' = r.dirs
                 /\ projectName' = r.projectName
                 /\ selection' = IF r.rejected THEN selection ELSE features
                 /\ pc' = IF r.rejected THEN "failed" ELSE "copy"
    /\ UNCHANGED <<base, tree, fi, ii, allDependencies, allDevDependencies,
                   injectedMarkers, steps>>

\* await copyDirectory(BASE_TEMPLATE_DIR, targetDir, [])
CopyBase ==
    /\ pc = "copy"
    /\ LET r == CopyDirectory(BaseSource(base), [files |-> tree, dirs |-> dirs], {})
       IN  /\ tree' = r.files
           /\ dirs' = r.dirs
           /\ last' = Call("copy", <<>>, <<>>, <<>>, FALSE, r.raised)
           /\ pc' = IF r.raised THEN "failed" ELSE Successor("copy")
    /\ steps' = Append(steps, Step("copy"))
    /\ UNCHANGED <<base, selection, projectName, fi, ii, allDependencies,
                   allDevDependencies, injectedMarkers>>

\* await processAllTemplateVariables(targetDir, { PROJECT_NAME: projectName })
Substitute ==
    /\ pc = "subst"
    /\ tree' = ProcessAllTemplateVariables(tree, <<Variable("PROJECT_NAME", projectName)>>)
    /\ steps' = Append(steps, Step("subst"))
    /\ last' = Call("subst", <<>>, <<>>, <<>>, FALSE, FALSE)
    /\ pc' = EnterPhase(Successor("subst"))
    /\ fi' = IF pc' = "files" THEN 1 ELSE fi
    /\ UNCHANGED <<base, selection, projectName, dirs, ii, allDependencies,
                   allDevDependencies, injectedMarkers>>

\* if (feature.files && feature.files.length > 0) await copyModuleFiles(...)
FeatureFiles ==
    /\ pc = "files"
    /\ IF Feature.files # <<>>
       THEN /\ tree' = CopyModuleFiles(Modules, tree, Feature.files)
            /\ dirs' = MkdirParents(dirs, tree')
            /\ steps' = Append(steps, Step("files"))
            /\ last' = Call("files", <<>>, <<>>, <<>>, FALSE, FALSE)
       ELSE UNCHANGED <<tree, dirs, steps, last>>
    /\ pc' = "deps"
    /\ UNCHANGED <<base, selection, projectName, fi, ii, allDependencies,
                   allDevDependencies, injectedMarkers>>

\* Object.assign(allDependencies, ...); Object.assign(allDevDependencies, ...)
CollectDependencies ==
    /\ pc = "deps"
    /\ allDependencies' = ObjectAssign(allDependencies, Feature.dependencies)
    /\ allDevDependencies' = ObjectAssign(allDevDependencies, Feature.devDependencies)
    /\ steps' = Append(steps, Step("deps"))
    /\ last' = Call("deps", <<>>, <<>>, <<>>, FALSE, FALSE)
    /\ IF Feature.injections # <<>>
       THEN /\ pc' = "inject"
            /\ ii' = 1
            /\ fi' = fi
       ELSE NextFeature
    /\ UNCHANGED <<base, selection, projectName, tree, dirs, injectedMarkers>>

\* const injected = await injectCode(...); if (injected) injectedMarkers.add(...)
Inject ==
    /\ pc = "inject"
    /\ LET inj == Feature.injections[ii]
           r   == InjectCode(tree, inj.file, inj.marker, inj.code)
       IN  /\ last' = Call("inject", inj.file, inj.marker, inj.code, r.applied, r.raised)
           /\ steps' = Append(steps, Step("inject"))
           /\ tree' = r.tree
           /\ dirs' = MkdirParents(dirs, r.tree)
           /\ IF r.raised
              THEN /\ pc' = "failed"
                   /\ UNCHANGED <<fi, ii, injectedMarkers>>
              ELSE /\ injectedMarkers' = IF r.applied
                                         THEN SetAdd(injectedMarkers, inj.marker)
                                         ELSE injectedMarkers
                   /\ IF ii < Len(Feature.injections)
                      THEN /\ ii' = ii + 1
                           /\ UNCHANGED <<pc, fi>>
                      ELSE NextFeature
    /\ UNCHANGED <<base, selection, projectName, allDependencies, allDevDependencies>>

\* if (some dependency was collected) await mergePackageJson(...)
MergeDependencies ==
    /\ pc = "merge"
    /\ IF allDependencies # <<>> \/ allDevDependencies # <<>>
       THEN LET r == MergePackageJson(tree, allDependencies, allDevDependencies)
            IN  /\ tree' = r.tree
                /\ steps' = Append(steps, Step("merge"))
                /\ last' = Call("merge", PackageJson, <<>>, <<>>, FALSE, r.raised)
                /\ pc' = IF r.raised THEN "failed" ELSE Successor("merge")
       ELSE /\ pc' = Successor("merge")
            /\ UNCHANGED <<tree, steps, last>>
    /\ UNCHANGED <<base, selection, projectName, dirs, fi, ii, allDependencies,
                   allDevDependencies, injectedMarkers>>

\* if (injectedMarkers.size > 0) await cleanupMarkers(targetDir, [...injectedMarkers])
Cleanup ==
    /\ pc = "cleanup"
    /\ IF injectedMarkers # <<>>
       THEN /\ tree' = CleanupMarkers(tree, injectedMarkers)
            /\ steps' = Append(steps, Step("cleanup"))
            /\ last' = Call("cleanup", <<>>, <<>>, <<>>, FALSE, FALSE)
       ELSE UNCHANGED <<tree, steps, last>>
    /\ pc' = Successor("cleanup")
    /\ UNCHANGED <<base, selection, projectName, dirs, fi, ii, allDependencies,
                   allDevDependencies, injectedMarkers>>

Next ==
    \/ Resolve
    \/ CopyBase
    \/ Substitute
    \/ FeatureFiles
    \/ CollectDependencies
    \/ Inject
    \/ MergeDependencies
    \/ Cleanup

Spec == Init /\ [][Next]_vars

(***************************************************************************)
(* The run on a file system whose operations can fail (EACCES, EIO, a full *)
(* disk): besides the steps above, an injection, the dependency merge or   *)
(* the marker cleanup meets a failing read or write.  The call record      *)
(* holds the failing file in args.ioError.                                 *)
(***************************************************************************)
IOError(p) == [ioError |-> p]

\* injectCode: readFile fails with a code other than ENOENT, or mkdir or
\* writeFile fails; the error is thrown again and scaffold() rejects
InjectIOError ==
    /\ pc = "inject"
    /\ LET inj == Feature.injections[ii]
       IN  last' = [Call("inject", inj.file, inj.marker, inj.code, FALSE, TRUE)
                     EXCEPT !.args = IOError(inj.file)]
    /\ steps' = Append(steps, Step("inject"))
    /\ pc' = "failed"
    /\ UNCHANGED <<base, selection, projectName, tree, dirs, fi, ii, allDependencies,
                   allDevDependencies, injectedMarkers>>

\* mergePackageJson: readFile or writeFile fails; the catch prints and throws
MergeIOError ==
    /\ pc = "merge"
    /\ allDependencies # <<>> \/ allDevDependencies # <<>>
    /\ last' = [Call("merge", PackageJson, <<>>, <<>>, FALSE, TRUE)
                 EXCEPT !.args = IOError(PackageJson)]
    /\ steps' = Append(steps, Step("merge"))
    /\ pc' = "failed"
    /\ UNCHANGED <<base, selection, projectName, tree, dirs, fi, ii, allDependencies,
                   allDevDependencies, injectedMarkers>>

\* cleanupMarkers: the read or the write of one of the files to clean fails;
\* the catch of the loop goes on with the next file and scaffold() goes on
CleanupIOError ==
    /\ pc = "cleanup"
    /\ injectedMarkers # <<>>
    /\ \E p \in {q \in DOMAIN tree : CleanupGlob(q) /\ ~SkipInCleanup(q)} :
          /\ tree' = CleanupMarkersSkipping(tree, injectedMarkers, {p})
          /\ last' = [Call("cleanup", p, <<>>, <<>>, FALSE, FALSE)
                       EXCEPT !.args = IOError(p)]
    /\ steps' = Append(steps, Step("cleanup"))
    /\ pc' = Successor("cleanup")
    /\ UNCHANGED <<base, selection, projectName, dirs, fi, ii, allDependencies,
                   allDevDependencies, injectedMarkers>>

NextIO ==
    \/ Next
    \/ InjectIOError
    \/ MergeIOError
    \/ CleanupIOError

SpecIO == Init /\ [][NextIO]_vars

(***************************************************************************)
(* copyDirectory and processTemplateVariables called on their own, on      *)
(* destinations and with arguments a run of scaffold() does not give them. *)
(***************************************************************************)
InitCalls ==
    /\ base \in BaseTrees
    /\ selection = <<>>
    /\ projectName = <<>>
    /\ \E dest \in DestStates : tree = dest.files /\ dirs = dest.dirs
    /\ pc = "call"
    /\ fi = 0
    /\ ii = 0
    /\ allDependencies = <<>>
    /\ allDevDependencies = <<>>
    /\ injectedMarkers = <<>>
    /\ steps = <<>>
    /\ last = NoCall

\* await copyDirectory(BASE_TEMPLATE_DIR, dest, excludePaths)
CallCopyDirectory ==
    /\ pc = "call"
    /\ \E excludePaths \in ExcludeSets :
          LET r == CopyDirectory(BaseSource(base), [files |-> tree, dirs |-> dirs],
                                 excludePaths)
          IN  /\ tree' = r.files
              /\ dirs' = r.dirs
              /\ last' = [Call("copyDirectory", Root, <<>>, <<>>, FALSE, r.raised)
                            EXCEPT !.args = [src |-> BaseSource(base),
                                             excludePaths |-> excludePaths]]
    /\ pc' = "copied"
    /\ UNCHANGED <<base, selection, projectName, fi, ii, allDependencies,
                   allDevDependencies, injectedMarkers, steps>>

\* a path that does not exist
MissingPath == <<"missing", ".", "md">>

\* await processTemplateVariables(filePath, variables), on a file, a
\* directory or a missing path, the file readable or not
CallProcessTemplateVariables ==
    /\ pc \in {"call", "copied"}
    /\ \E filePath \in DOMAIN tree \cup dirs \cup {MissingPath},
          variables \in VariableSets, failing \in {{}, DOMAIN tree} :
          LET r == ProcessTemplateVariables(tree, filePath, variables, failing)
          IN  /\ tree' = r.tree
              /\ last' = [Call("processTemplateVariables", filePath, <<>>, <<>>,
                                FALSE, r.raised)
                            EXCEPT !.args = [variables |-> variables, failing |-> failing],
                                   !.result = [wrote |-> r.wrote]]
    /\ pc' = "returned"
    /\ UNCHANGED <<base, selection, projectName, dirs, fi, ii, allDependencies,
                   allDevDependencies, injectedMarkers, steps>>

NextCalls ==
    \/ CallCopyDirectory
    \/ CallProcessTemplateVariables

SpecCalls == InitCalls /\ [][NextCalls]_vars

(***************************************************************************)
(* Vocabulary of the properties.                                           *)
(***************************************************************************)
\* the target tree as the injections find it: base copied, variables replaced
PreTree ==
    ProcessAllTemplateVariables(
        CopyDirectory(BaseSource(base), [files |-> EmptyTree, dirs |-> {Root}], {}).files,
        <<Variable("PROJECT_NAME", projectName)>>)

RECURSIVE InjectionsOf(_)
InjectionsOf(sel) ==
    IF sel = <<>> THEN <<>>
    ELSE FeaturesConfig[Head(sel)].injections \o InjectionsOf(Tail(sel))

\* the fragments the selection injects at marker m of file p, in run order
CodesAt(p, m) ==
    LET at == SelectSeq(InjectionsOf(selection), LAMBDA j : j.file = p /\ j.marker = m)
    IN  [i \in 1..Len(at) |-> at[i].code]

\* the patterns occur in s one after the other, without overlap, in this order
RECURSIVE InOrder(_, _)
InOrder(s, pats) ==
    IF pats = <<>> THEN TRUE
    ELSE LET i == IndexOf(s, Head(pats))
         IN  /\ i # 0
             /\ InOrder(SubSeq(s, i + Len(Head(pats)), Len(s)), Tail(pats))

\* rank of a step in the order copy, substitution, features, merge, cleanup
PhaseRank(st) ==
    CASE st.step = "copy" -> 1
      [] st.step = "subst" -> 2
      [] st.step \in {"files", "deps", "inject"} -> 3
      [] st.step = "merge" -> 4
      [] st.step = "cleanup" -> 5

SubRank(st) ==
    CASE st.step = "files" -> 1
      [] st.step = "deps" -> 2
      [] st.step = "inject" -> 3
      [] OTHER -> 0

Before(a, b) ==
    \/ PhaseRank(a) < PhaseRank(b)
    \/ /\ PhaseRank(a) = 3
       /\ PhaseRank(b) = 3
       /\ \/ a.f < b.f
          \/ a.f = b.f /\ SubRank(a) < SubRank(b)
          \/ a.f = b.f /\ a.step = "inject" /\ b.step = "inject" /\ a.i < b.i

HasStep(name) == \E k \in 1..Len(steps) : steps[k].step = name

(***************************************************************************)
(* C1: the mutating steps of a run happen in the order base copy, variable *)
(* substitution, then per selected feature in selection order (module      *)
(* files, dependency collection, that feature's injections in declaration  *)
(* order), then manifest dependency merge, then marker cleanup; a step     *)
(* that ran is never followed by a step of an earlier place, and whenever  *)
(* a later step has run, the base copy and the substitution ran before it. *)
(***************************************************************************)
C1_StepsInOrder ==
    /\ \A k \in 1..(Len(steps) - 1) : Before(steps[k], steps[k + 1])
    /\ Len(steps) >= 1 => steps[1].step = "copy"
    /\ Len(steps) >= 2 => steps[2].step = "subst"

C1_Witness ==
    /\ pc = "done"
    /\ HasStep("files")
    /\ HasStep("merge")
    /\ HasStep("cleanup")
    /\ \E k \in 1..Len(steps) : steps[k].step = "inject" /\ steps[k].f = 2

\* the last call was injectCode on a file that existed when it was called
InjectedExisting == last.op = "inject" /\ last.path \in DOMAIN last.before

\* the last call was injectCode on a file that did not exist
InjectedMissing == last.op = "inject" /\ last.path \notin DOMAIN last.before

\* the script-injection branch of injectCode
ScriptCall == IsManifest(last.path) /\ IsScriptsMarker(last.marker)

Keys(ms) == {ms[i].k : i \in 1..Len(ms)}

\* the code of the last call read as the interior of an object literal
Fragment == JSONParse(<<"{">> \o last.code \o <<"}">>)

\* the manifest the last call found, read without the lines of its marker
OldManifest == JSONParse(StripMarkerLines(last.before[last.path], last.marker))

DollarFree(code) == \A i \in 1..Len(code) : code[i] \notin {"$$", "$&"}

(***************************************************************************)
(* C2: for an existing non-manifest file that contains marker M and the    *)
(* features that inject at M in that file, in selection order: every call  *)
(* returned true, M is still in the file, and once all injections are done *)
(* the fragments stand in the file in the order code(f1), ..., code(fn),   *)
(* all of them above M.                                                    *)
(***************************************************************************)
C2_StackedInSelectionOrder ==
    /\ (/\ InjectedExisting
        /\ last.path \in DOMAIN PreTree
        /\ ~IsManifest(last.path)
        /\ Includes(PreTree[last.path], last.marker))
       => (last.applied /\ Includes(tree[last.path], last.marker))
    /\ pc = "merge"
       => \A p \in DOMAIN PreTree : \A m \in Markers :
            (~IsManifest(p) /\ Includes(PreTree[p], m))
            => InOrder(tree[p], CodesAt(p, m) \o <<m>>)

\* C2 for fragments without a dollar pattern: the stacking order holds
C2_StackedWhenDollarFree ==
    pc = "merge"
    => \A p \in DOMAIN PreTree : \A m \in Markers :
         (/\ ~IsManifest(p)
          /\ Includes(PreTree[p], m)
          /\ \A i \in 1..Len(CodesAt(p, m)) : DollarFree(CodesAt(p, m)[i]))
         => InOrder(tree[p], CodesAt(p, m) \o <<m>>)

(***************************************************************************)
(* C3: injectCode on a path that does not exist creates the file with the  *)
(* marker line followed by the code line and nothing else, returns true    *)
(* without throwing, leaves every other file alone, and the marker is in   *)
(* the injected-marker set afterwards.                                     *)
(***************************************************************************)
C3_MissingFileCreated ==
    InjectedMissing
    => /\ last.applied
       /\ ~last.raised
       /\ last.path \in DOMAIN tree
       /\ tree[last.path] = last.marker \o <<NL>> \o last.code \o <<NL>>
       /\ \A q \in DOMAIN last.before : tree[q] = last.before[q]
       /\ DOMAIN tree = DOMAIN last.before \cup {last.path}
       /\ last.marker \in Range(injectedMarkers)

C3_Witness ==
    /\ InjectedMissing
    /\ last.path = EnvExample
    /\ last.marker \notin Range(last.markersBefore)

(***************************************************************************)
(* C4, as claimed: for every existing target file, manifest or not, and    *)
(* every marker that does not occur in it, injectCode returns false,       *)
(* leaves the file identical, does not throw and does not add the marker.  *)
(***************************************************************************)
C4_AbsentMarkerIsNoOp ==
    (InjectedExisting /\ ~Includes(last.before[last.path], last.marker))
    => /\ ~last.applied
       /\ ~last.raised
       /\ tree = last.before
       /\ injectedMarkers = last.markersBefore

(***************************************************************************)
(* C4, amended: the no-op holds for every existing file and absent marker  *)
(* except a script injection into a manifest; there the fragment is merged *)
(* whether or not the marker line is in the manifest: the call returns     *)
(* true and rewrites the file, or throws when the manifest or the fragment *)
(* does not parse.                                                         *)
(***************************************************************************)
C4_AbsentMarkerIsNoOpUnlessScripts ==
    (InjectedExisting /\ ~Includes(last.before[last.path], last.marker))
    => IF ScriptCall
       THEN /\ last.applied = (Fragment.ok /\ OldManifest.ok)
            /\ last.raised = ~last.applied
            /\ last.applied => JSONParse(tree[last.path]).ok
       ELSE /\ ~last.applied
            /\ ~last.raised
            /\ tree = last.before
            /\ injectedMarkers = last.markersBefore

C4_Witness ==
    /\ InjectedExisting
    /\ ~Includes(last.before[last.path], last.marker)
    /\ ~IsManifest(last.path)
    /\ injectedMarkers # <<>>

\* the script fragments of the selection, in run order
ScriptCodes ==
    LET at == SelectSeq(InjectionsOf(selection),
                        LAMBDA j : IsManifest(j.file) /\ IsScriptsMarker(j.marker))
    IN  [i \in 1..Len(at) |-> JSONParse(<<"{">> \o at[i].code \o <<"}">>).ms]

BaseManifest == JSONParse(StripMarkerLines(PreTree[PackageJson], MarkerScripts))

(***************************************************************************)
(* C5: a script injection into an existing manifest that is valid JSON     *)
(* once the marker line is taken out, with a fragment that is a valid      *)
(* object interior, returns true; the manifest it leaves is valid JSON,    *)
(* its scripts section is the old one with the fragment's pairs merged in  *)
(* (the fragment wins on a shared key), every other field is as before,    *)
(* the marker is gone and no other file changed.  After the script         *)
(* injections of several features each script has the value of the last    *)
(* fragment in selection order that names it, or else its base value.      *)
(***************************************************************************)
C5_ScriptsMerged ==
    /\ (InjectedExisting /\ ScriptCall /\ Fragment.ok /\ OldManifest.ok)
       => LET new  == JSONParse(tree[last.path])
              olds == Section(OldManifest.ms, "scripts:")
              news == Section(new.ms, "scripts:")
          IN  /\ last.applied
              /\ ~last.raised
              /\ new.ok
              /\ Keys(new.ms) = Keys(OldManifest.ms) \cup {"scripts:"}
              /\ Get(new.ms, "scripts:").isObj
              /\ Keys(news) = Keys(olds) \cup Keys(Fragment.ms)
              /\ \A k \in Keys(news) :
                    Get(news, k) = IF k \in Keys(Fragment.ms)
                                   THEN Get(Fragment.ms, k) ELSE Get(olds, k)
              /\ \A k \in Keys(OldManifest.ms) \ {"scripts:"} :
                    Get(new.ms, k) = Get(OldManifest.ms, k)
              /\ ~Includes(tree[last.path], last.marker)
              /\ \A q \in DOMAIN last.before \ {last.path} : tree[q] = last.before[q]
    /\ (pc = "merge" /\ ScriptCodes # <<>>)
       => LET new  == JSONParse(tree[PackageJson])
              news == Section(new.ms, "scripts:")
              olds == Section(BaseManifest.ms, "scripts:")
              from(k) == {i \in 1..Len(ScriptCodes) : k \in Keys(ScriptCodes[i])}
              lastOf(k) == CHOOSE i \in from(k) : \A j \in from(k) : j <= i
          IN  /\ new.ok
              /\ Keys(news) = Keys(olds) \cup UNION {Keys(ScriptCodes[i]) : i \in 1..Len(ScriptCodes)}
              /\ \A k \in Keys(news) :
                    Get(news, k) = IF from(k) # {}
                                   THEN Get(ScriptCodes[lastOf(k)], k) ELSE Get(olds, k)

C5_Witness ==
    /\ InjectedExisting /\ ScriptCall /\ Fragment.ok /\ OldManifest.ok
    /\ Includes(last.before[last.path], last.marker)
    /\ \E k \in Keys(Fragment.ms) \cap Keys(Section(OldManifest.ms, "scripts:")) :
          Get(Fragment.ms, k) # Get(Section(OldManifest.ms, "scripts:"), k)

(***************************************************************************)
(* C6: a script injection whose fragment is not a valid object interior    *)
(* throws: it does not return true, the manifest and every other file are  *)
(* as before the call, the marker set is as before, and the run is over:   *)
(* the failed call is the last step that ran, and neither the dependency   *)
(* merge nor the marker cleanup has run.                                   *)
(***************************************************************************)
C6_BadFragmentHalts ==
    (InjectedExisting /\ ScriptCall /\ ~Fragment.ok)
    => /\ last.raised
       /\ ~last.applied
       /\ tree = last.before
       /\ injectedMarkers = last.markersBefore
       /\ pc = "failed"
       /\ steps[Len(steps)] = [step |-> "inject", f |-> fi, i |-> ii]
       /\ ~HasStep("merge")
       /\ ~HasStep("cleanup")

C6_Witness ==
    /\ InjectedExisting /\ ScriptCall /\ ~Fragment.ok
    /\ OldManifest.ok
    /\ pc = "failed"
    /\ ii < Len(Feature.injections)
    /\ injectedMarkers # <<>>
    /\ allDevDependencies # <<>>

\* the lines of s that are not whitespace only, as they are
RawLines(s) == SelectSeq(SplitLines(s), LAMBDA l : Trim(l) # <<>>)

\* the lines of s that are neither whitespace only nor one of the markers
KeptLines(s, markers) ==
    SelectSeq(SplitLines(s), LAMBDA l : Trim(l) # <<>> /\ Trim(l) \notin markers)

C8_NoResidualMarkers ==
    pc = "done"
    => \A p \in DOMAIN tree : ~IsReserved(p) => ~HasMarkerLine(tree[p])

(***************************************************************************)
(* C9: for every file of the target tree that holds marker M and every     *)
(* fragment injected at M in it, after the injection and the marker        *)
(* cleanup the file holds the fragment exactly once and has no line of the *)
(* marker grammar.                                                         *)
(***************************************************************************)
C9_InjectThenCleanup ==
    (pc = "done" /\ HasStep("cleanup"))
    => \A k \in 1..Len(InjectionsOf(selection)) :
          LET j == InjectionsOf(selection)[k]
          IN  (j.file \in DOMAIN PreTree /\ Includes(PreTree[j.file], j.marker))
              => /\ Count(tree[j.file], j.code) = 1
                 /\ ~HasMarkerLine(tree[j.file])

(***************************************************************************)
(* C10: marker cleanup leaves every reserved example-environment file as   *)
(* it was, marker lines included, also when a marker in it is in the       *)
(* injected-marker set and is taken out of other files in the same pass.   *)
(***************************************************************************)
C10_ReservedFileUntouched ==
    last.op = "cleanup"
    => \A p \in DOMAIN last.before :
          IsReserved(p) => (p \in DOMAIN tree /\ tree[p] = last.before[p])

C10_Witness ==
    /\ last.op = "cleanup"
    /\ MarkerCtx \in Range(injectedMarkers)
    /\ MarkerLineTest(last.before[IndexTs], MarkerCtx)
    /\ ~MarkerLineTest(tree[IndexTs], MarkerCtx)
    /\ MarkerLineTest(tree[DeployEnv], MarkerCtx)
    /\ CleanupGlob(DeployEnv)

\* the orders in which the features of sel can be selected
OrdersOf(sel) ==
    {p \in [1..Len(sel) -> Range(sel)] : \A i, j \in 1..Len(sel) : i # j => p[i] # p[j]}

\* the map the loop over the selection sel leaves in allDependencies (section
\* "dependencies") or in allDevDependencies (section "devDependencies")
RECURSIVE CollectedFrom(_, _, _)
CollectedFrom(acc, sel, section) ==
    IF sel = <<>> THEN acc
    ELSE CollectedFrom(ObjectAssign(acc, FeaturesConfig[Head(sel)][section]),
                       Tail(sel), section)

\* the same version for the same packages, in whatever order they were added
MapEq(a, b) == Keys(a) = Keys(b) /\ \A k \in Keys(a) : Get(a, k) = Get(b, k)

\* no package is declared with two different versions by features of sel
NoVersionConflict(sel) ==
    \A i, j \in 1..Len(sel) : \A section \in {"dependencies", "devDependencies"} :
        LET a == FeaturesConfig[sel[i]][section]
            b == FeaturesConfig[sel[j]][section]
        IN  \A k \in Keys(a) \cap Keys(b) : Get(a, k) = Get(b, k)

\* the dependency sections of the manifest after a merge of the two maps
MergedSections(deps, dev) ==
    LET r  == MergePackageJson(tree, deps, dev)
        ms == JSONParse(r.tree[PackageJson]).ms
    IN  [raised |-> r.raised,
         dependencies |-> Section(ms, "dependencies:"),
         devDependencies |-> Section(ms, "devDependencies:")]

\* at the dependency merge: every order of the selected features collects the
\* maps of this run and merges to the same two sections
SameForEveryOrder ==
    \A p \in OrdersOf(selection) :
        LET deps == CollectedFrom(<<>>, p, "dependencies")
            dev  == CollectedFrom(<<>>, p, "devDependencies")
            mine == MergedSections(allDependencies, allDevDependencies)
            its  == MergedSections(deps, dev)
        IN  /\ MapEq(deps, allDependencies)
            /\ MapEq(dev, allDevDependencies)
            /\ its.raised = mine.raised
            /\ ~mine.raised => /\ MapEq(its.dependencies, mine.dependencies)
                               /\ MapEq(its.devDependencies, mine.devDependencies)

(***************************************************************************)
(* C11, as claimed: for any two selections that are permutations of the    *)
(* same set of features, the dependency and devDependency maps the driver  *)
(* collects, and so the dependency sections of the final manifest, are     *)
(* identical.                                                              *)
(***************************************************************************)
C11_OrderIndependent ==
    pc = "merge" => SameForEveryOrder

(***************************************************************************)
(* C11, amended: the maps and the merged sections are identical (the same  *)
(* version for the same packages) for permutations of a set of features in *)
(* which no package is declared with different versions by two features;   *)
(* and the maps of the run are the ones the loop collects in its order.    *)
(***************************************************************************)
C11_OrderIndependentWithoutConflict ==
    pc = "merge"
    => /\ allDependencies = CollectedFrom(<<>>, selection, "dependencies")
       /\ allDevDependencies = CollectedFrom(<<>>, selection, "devDependencies")
       /\ NoVersionConflict(selection) => SameForEveryOrder

C11_Witness ==
    /\ pc = "merge"
    /\ NoVersionConflict(selection)
    /\ Len(selection) = 3
    /\ Cardinality(Keys(allDependencies)) >= 2
    /\ allDevDependencies # <<>>
    /\ \E p \in OrdersOf(selection) :
          CollectedFrom(<<>>, p, "dependencies") # allDependencies

\* the manifest section that holds the map of a registry section
SectionKey(section) == IF section = "dependencies" THEN "dependencies:" ELSE "devDependencies:"

\* the places in the selection of the features that declare package k in section
DeclaredBy(section, k) ==
    {i \in 1..Len(selection) : k \in Keys(FeaturesConfig[selection[i]][section])}

\* every declared package has, in manifest ms, the version of the last feature in
\* selection order that declares it
LastDeclarationWins(ms) ==
    \A section \in {"dependencies", "devDependencies"} :
        \A k \in UNION {Keys(FeaturesConfig[selection[i]][section]) : i \in 1..Len(selection)} :
            LET i == CHOOSE i \in DeclaredBy(section, k) :
                        \A j \in DeclaredBy(section, k) : j <= i
                sec == Section(ms, SectionKey(section))
            IN  /\ HasKey(sec, k)
                /\ Get(sec, k) = Get(FeaturesConfig[selection[i]][section], k)

\* the last call was a mergePackageJson that returned
Merged == last.op = "merge" /\ ~last.raised

(***************************************************************************)
(* C12: the dependency merge is idempotent and last-write-wins: a second   *)
(* mergePackageJson with the same maps returns and leaves the manifest as  *)
(* the first one left it; and a package declared by several selected       *)
(* features, or already in the base manifest, has in the manifest after    *)
(* the merge, and in the final manifest, the version of the last feature   *)
(* in selection order that declares it.                                    *)
(***************************************************************************)
C12_MergeIdempotentLastWins ==
    /\ Merged
       => LET again == MergePackageJson(tree, allDependencies, allDevDependencies)
          IN  /\ ~again.raised
              /\ again.tree = tree
              /\ JSONParse(tree[PackageJson]).ok
              /\ LastDeclarationWins(JSONParse(tree[PackageJson]).ms)
    /\ (pc = "done" /\ HasStep("merge"))
       => /\ JSONParse(tree[PackageJson]).ok
          /\ LastDeclarationWins(JSONParse(tree[PackageJson]).ms)

C12_Witness ==
    /\ Merged
    /\ \E k \in Keys(allDependencies) : Cardinality(DeclaredBy("dependencies", k)) = 2
    /\ \E k \in Keys(allDependencies) :
          LET was == Section(JSONParse(last.before[PackageJson]).ms, "dependencies:")
          IN  HasKey(was, k) /\ Get(was, k) # Get(allDependencies, k)
    /\ tree # last.before

(***************************************************************************)
(* C13, as claimed: mergePackageJson changes only the dependencies and     *)
(* devDependencies sections of the manifest: every other field, a scripts  *)
(* section written by an earlier script injection included, has the value  *)
(* it had, no other file changes; and both sections are in the manifest    *)
(* after the merge even when they were not before.                         *)
(***************************************************************************)
C13_MergeFrameBothSections ==
    Merged
    => LET was == JSONParse(last.before[PackageJson]).ms
           now == JSONParse(tree[PackageJson]).ms
       IN  /\ \A k \in Keys(was) \ {"dependencies:", "devDependencies:"} :
                 HasKey(now, k) /\ Get(now, k) = Get(was, k)
           /\ Keys(now) \subseteq Keys(was) \cup {"dependencies:", "devDependencies:"}
           /\ DOMAIN tree = DOMAIN last.before
           /\ \A q \in DOMAIN tree \ {PackageJson} : tree[q] = last.before[q]
           /\ HasKey(now, "dependencies:")
           /\ HasKey(now, "devDependencies:")

(***************************************************************************)
(* C13, amended: the same frame; the dependencies section is in the        *)
(* manifest after the merge even when it was not before, and the           *)
(* devDependencies section is there exactly when it was there before or    *)
(* the devDependencies map of the call is not empty.                       *)
(***************************************************************************)
C13_MergeFrame ==
    Merged
    => LET was == JSONParse(last.before[PackageJson]).ms
           now == JSONParse(tree[PackageJson]).ms
       IN  /\ \A k \in Keys(was) \ {"dependencies:", "devDependencies:"} :
                 HasKey(now, k) /\ Get(now, k) = Get(was, k)
           /\ Keys(now) \subseteq Keys(was) \cup {"dependencies:", "devDependencies:"}
           /\ DOMAIN tree = DOMAIN last.before
           /\ \A q \in DOMAIN tree \ {PackageJson} : tree[q] = last.before[q]
           /\ HasKey(now, "dependencies:")
           /\ HasKey(now, "devDependencies:")
              <=> (HasKey(was, "devDependencies:") \/ allDevDependencies # <<>>)

C13_Witness ==
    /\ Merged
    /\ LET was == JSONParse(last.before[PackageJson]).ms
       IN  /\ ~HasKey(was, "dependencies:")
           /\ ~HasKey(was, "devDependencies:")
           /\ HasKey(was, "name:")
           /\ HasKey(Section(was, "scripts:"), "worker:")
    /\ allDevDependencies # <<>>
    /\ \E k \in 1..Len(steps) : steps[k].step = "inject"

(***************************************************************************)
(* C18: when the injection of an earlier feature creates a missing file    *)
(* and later features inject at the same marker in that file, then once    *)
(* all injections are done the fragments stand in the file in selection    *)
(* order, all of them above the marker.                                    *)
(***************************************************************************)
C18_CreatedFileStackedInOrder ==
    pc = "merge"
    => \A p \in DOMAIN tree \ DOMAIN PreTree : \A m \in Markers :
          Len(CodesAt(p, m)) >= 2 => InOrder(tree[p], CodesAt(p, m) \o <<m>>)

\* the text with the lines of the marker grammar taken out
WithoutMarkerLines(s) ==
    Flatten([i \in 1..Len(KeptLines(s, {})) |->
                IF IsMarkerLine(KeptLines(s, {})[i]) THEN <<>>
                ELSE KeptLines(s, {})[i] \o <<NL>>])

\* the text cleanupMarkers hands to JSON.parse when it has stripped a line
StrippedByCleanup == StripAll(last.before[PackageJson], injectedMarkers, FALSE)

\* the selection has no script injection into the manifest
NoScriptInjection == ScriptCodes = <<>>

(***************************************************************************)
(* C19: whenever the run parses the manifest as JSON (script injection,    *)
(* dependency merge, cleanup), the text it parses has no marker line; in   *)
(* particular, for a base manifest that is valid JSON apart from a marker  *)
(* line and a selection that declares a dependency and has no script       *)
(* injection, the dependency merge returns without error.                  *)
(***************************************************************************)
C19_MarkersRemovedBeforeParse ==
    /\ (InjectedExisting /\ ScriptCall)
       => ~HasMarkerLine(StripMarkerLines(last.before[last.path], last.marker))
    /\ last.op = "merge" => ~HasMarkerLine(last.before[PackageJson])
    /\ (last.op = "cleanup" /\ StrippedByCleanup.modified)
       => ~HasMarkerLine(StrippedByCleanup.content)
    /\ (/\ last.op = "merge"
        /\ JSONParse(WithoutMarkerLines(PreTree[PackageJson])).ok
        /\ NoScriptInjection)
       => ~last.raised

(***************************************************************************)
(* C20: after a completed run, whatever the selection, the manifest parses *)
(* as JSON, if the base manifest is valid JSON once its marker lines are   *)
(* taken out; and when the text cleanup has stripped does not parse, that  *)
(* text is what cleanup writes, and the other files are cleaned all the    *)
(* same.                                                                   *)
(***************************************************************************)
C20_FinalManifestParses ==
    /\ (pc = "done" /\ JSONParse(WithoutMarkerLines(base[PackageJson])).ok)
       => JSONParse(tree[PackageJson]).ok
    /\ (/\ last.op = "cleanup"
        /\ StrippedByCleanup.modified
        /\ ~JSONParse(StrippedByCleanup.content).ok)
       => /\ tree[PackageJson] = StrippedByCleanup.content
          /\ pc = "done"
          /\ \A p \in DOMAIN tree \ {PackageJson} :
                tree[p] = IF CleanupGlob(p) /\ ~SkipInCleanup(p)
                          THEN StripAll(last.before[p], injectedMarkers, FALSE).content
                          ELSE last.before[p]

\* C20, the fallback alone: cleanup stripped a line of the manifest, the rest
\* does not parse, and the stripped text was written
C20_FallbackTaken ==
    /\ last.op = "cleanup"
    /\ StrippedByCleanup.modified
    /\ ~JSONParse(StrippedByCleanup.content).ok
    /\ tree[PackageJson] = StrippedByCleanup.content
    /\ tree[IndexTs] # last.before[IndexTs]

\* the last call was the start of scaffold()
Resolved == last.op = "resolve"

\* the current directory is the template root or a directory inside it
InsideTemplate ==
    \/ last.args.cwd = TemplateRoot
    \/ StartsWith(last.args.cwd, TemplateRoot \o <<"/">>)

\* the target directory was there and held a file or a directory
TargetNotEmpty ==
    /\ Root \in last.dirsBefore
    /\ \E e \in (DOMAIN last.before \cup last.dirsBefore) \ {Root} : TRUE

(***************************************************************************)
(* C14: if the invocation directory is the template root or inside it, or  *)
(* the resolved target directory (a new project path, or the current       *)
(* directory chosen with ".") exists and is not empty, the run ends with a *)
(* fatal error, no step of the run has been taken, and no file or          *)
(* directory of the target tree has been created or changed.               *)
(***************************************************************************)
C14_RefusedBeforeAnyWrite ==
    (Resolved /\ (InsideTemplate \/ TargetNotEmpty))
    => /\ pc = "failed"
       /\ last.raised
       /\ tree = last.before
       /\ dirs = last.dirsBefore
       /\ steps = <<>>

C14_Witness ==
    /\ Resolved
    /\ ~StartsWith(last.args.cwd, TemplateRoot)
    /\ TargetNotEmpty
    /\ last.args.answer = <<"my-app">>
    /\ last.path = <<"/", "home", "/", "app", "$&", "/", "my-app">>
    /\ pc = "failed"

\* the last call was a copyDirectory that returned
Copied == last.op = "copyDirectory" /\ ~last.raised

\* the entry e of the source of the last call is not excluded
NotExcluded(e) == ~Excluded(Join(last.args.src.root, e), last.args.excludePaths)

(***************************************************************************)
(* C15: after copyDirectory(src, dest, excludePaths) the destination is    *)
(* the destination before the call overridden by the source entries:       *)
(* every source file and directory (empty and nested ones too) whose full  *)
(* source path contains no entry of excludePaths is in the destination at  *)
(* the same relative path, a file with the content of the source; no       *)
(* source entry whose full path contains an excluded entry, and nothing    *)
(* below such a directory, is copied; what was in the destination at paths *)
(* the source does not have is unchanged.  With an empty list the copy is  *)
(* complete.                                                               *)
(***************************************************************************)
C15_CopyOverridesDestination ==
    Copied
    => LET src    == last.args.src
           files  == {p \in DOMAIN src.files : NotExcluded(p)}
           folders == {d \in src.dirs \ {Root} : NotExcluded(d)}
       IN  /\ DOMAIN tree = DOMAIN last.before \cup files
           /\ \A p \in files : tree[p] = src.files[p]
           /\ \A p \in DOMAIN last.before \ files : tree[p] = last.before[p]
           /\ dirs = last.dirsBefore \cup folders \cup {Root}
           /\ \A e \in (DOMAIN src.files \cup src.dirs) \ (files \cup folders \cup {Root}) :
                 /\ e \in DOMAIN tree => (e \in DOMAIN last.before /\ tree[e] = last.before[e])
                 /\ e \in dirs => e \in last.dirsBefore
                 /\ \A q \in DOMAIN src.files \cup src.dirs :
                       e \in Ancestors(q) => q \notin files \cup folders
           /\ last.args.excludePaths = {}
              => /\ DOMAIN src.files \subseteq DOMAIN tree
                 /\ src.dirs \subseteq dirs

C15_Witness ==
    /\ Copied
    /\ last.args.excludePaths = {<<"deploy">>}
    /\ NotesTxt \in DOMAIN tree
    /\ ReadmeMd \in DOMAIN last.before
    /\ tree[ReadmeMd] # last.before[ReadmeMd]
    /\ <<"src", "/", "lib", "/", "gen">> \in dirs
    /\ DeployEnv \notin DOMAIN tree
    /\ <<"deploy">> \notin dirs

\* the last call was processTemplateVariables
Processed == last.op = "processTemplateVariables"

\* the token is the placeholder of a key of the variables of the last call
IsKnownPlaceholder(tok) ==
    \E i \in 1..Len(last.args.variables) : tok = Placeholder(last.args.variables[i].k)

\* variables[K] for the placeholder of key K
ValueOf(tok) ==
    LET vs == last.args.variables
        i  == CHOOSE i \in 1..Len(vs) : tok = Placeholder(vs[i].k)
    IN  Text(vs[i].v)

\* the content with every placeholder of a key replaced by the value of the key
Substituted(content) ==
    [i \in 1..Len(content) |->
        IF IsKnownPlaceholder(content[i]) THEN ValueOf(content[i]) ELSE content[i]]

\* what C16 says of the last call, apart from the replaced text
SubstitutionFrame ==
    /\ ~last.raised
    /\ DOMAIN tree = DOMAIN last.before
    /\ \A q \in DOMAIN tree \ {last.path} : tree[q] = last.before[q]
    /\ IF last.path \in DOMAIN last.before /\ last.path \notin last.args.failing
       THEN last.result.wrote
            <=> \E i \in 1..Len(last.before[last.path]) :
                    IsKnownPlaceholder(last.before[last.path][i])
       ELSE ~last.result.wrote /\ tree = last.before
    /\ ~last.result.wrote => tree = last.before

(***************************************************************************)
(* C16: processTemplateVariables(filePath, variables) replaces every       *)
(* occurrence of {{K}} by variables[K] for exactly the keys of variables,  *)
(* leaves every other placeholder as it is, writes the file only when a    *)
(* placeholder was replaced, and never raises an error, whether the path   *)
(* is a file, a directory or a file that cannot be read.                   *)
(***************************************************************************)
C16_SubstitutesExactly ==
    Processed
    => /\ SubstitutionFrame
       /\ (last.path \in DOMAIN last.before /\ last.path \notin last.args.failing)
          => tree[last.path] = Substituted(last.before[last.path])

\* C16 for values without a dollar pattern
C16_SubstitutesExactlyWithoutDollar ==
    Processed
    => /\ SubstitutionFrame
       /\ (/\ last.path \in DOMAIN last.before
           /\ last.path \notin last.args.failing
           /\ \A i \in 1..Len(last.args.variables) :
                 DollarFree(last.args.variables[i].v))
          => tree[last.path] = Substituted(last.before[last.path])

\* C16: a file with two occurrences of a known placeholder and an unknown one
C16_Reached ==
    /\ Processed
    /\ last.path = ReadmeMd
    /\ last.result.wrote
    /\ "{{AUTHOR}}" \in Range(tree[ReadmeMd])
    /\ "{{PROJECT_NAME}}" \notin Range(tree[ReadmeMd])

\* the last call was a mutating step after the base copy and it failed: it
\* raised an error, or one of its file operations failed
StepFailed ==
    /\ last.op \in {"files", "inject", "merge", "cleanup"}
    /\ \/ last.raised
       \/ "ioError" \in DOMAIN last.args

(***************************************************************************)
(* C17: when a mutating step after the base copy fails (an injection I/O   *)
(* error, a missing or unparsable manifest in the dependency merge, a      *)
(* failed read or write in the marker cleanup), the run halts there: the   *)
(* failing step is the last step of the run, the run does not finish, and  *)
(* the target tree is left as it was when the step failed.                 *)
(***************************************************************************)
C17_FailureHaltsRun ==
    StepFailed
    => /\ pc = "failed"
       /\ steps # <<>>
       /\ steps[Len(steps)].step = last.op
       /\ tree = last.before
       /\ dirs = last.dirsBefore

\* C17 for the failures that reach scaffold() as an error
C17_RaisedFailureHaltsRun ==
    (StepFailed /\ last.raised)
    => /\ pc = "failed"
       /\ steps # <<>>
       /\ steps[Len(steps)].step = last.op
       /\ tree = last.before
       /\ dirs = last.dirsBefore

\* C17: a file operation of the cleanup failed and the run finished
C17_CleanupFailureSwallowed ==
    /\ last.op = "cleanup"
    /\ "ioError" \in DOMAIN last.args
    /\ pc = "done"

\* the text of the token holds the placeholder {{PROJECT_NAME}}
HoldsPlaceholder(tok) == tok \in {"{{PROJECT_NAME}}", "app{{PROJECT_NAME}}"}

\* the files of t with an unresolved {{PROJECT_NAME}}
Unresolved(t) ==
    {p \in DOMAIN t : \E i \in 1..Len(t[p]) : HoldsPlaceholder(t[p][i])}

\* the feature copies module files, or one of its fragments holds the placeholder
BringsPlaceholder(k) ==
    \/ FeaturesConfig[k].files # <<>>
    \/ \E i \in 1..Len(FeaturesConfig[k].injections) :
          \E j \in 1..Len(FeaturesConfig[k].injections[i].code) :
             HoldsPlaceholder(FeaturesConfig[k].injections[i].code[j])

(***************************************************************************)
(* C21: after every completed run no file of the target tree holds an      *)
(* unresolved {{PROJECT_NAME}}, whether the text came from the base        *)
(* template, from a module file copied for a selected feature or from a    *)
(* fragment inserted by an injection.  Stated for project names without a  *)
(* dollar pattern, which the substitution inserts as they are.             *)
(***************************************************************************)
C21_NoUnresolvedPlaceholder ==
    (pc = "done" /\ DollarFree(projectName)) => Unresolved(tree) = {}

\* C21 for the text of the base template alone, and a project name without a
\* dollar pattern
C21_BaseTextResolved ==
    (/\ pc = "done"
     /\ DollarFree(projectName)
     /\ \A i \in 1..Len(selection) : ~BringsPlaceholder(selection[i]))
    => Unresolved(tree) = {}

\* C21: a completed run left the placeholder of a copied module file
C21_ModuleFileUnresolved ==
    /\ pc = "done"
    /\ DollarFree(projectName)
    /\ Unresolved(tree) = {<<"src", "/">> \o WorkerModule}

\* C21: a completed run left the placeholder of an injected fragment
C21_FragmentUnresolved ==
    /\ pc = "done"
    /\ DollarFree(projectName)
    /\ Unresolved(tree) = {IndexTs}
    /\ \A i \in 1..Len(selection) : FeaturesConfig[selection[i]].files = <<>>

\* C21: a completed run whose base template held the placeholder in three files
C21_BaseTextReached ==
    /\ pc = "done"
    /\ DollarFree(projectName)
    /\ Cardinality(Unresolved(base)) = 3
    /\ selection # <<>>
    /\ Unresolved(tree) = {}

====
